---- MODULE Spec2Model ----
(***************************************************************************)
(* The MaxInFlight limiter of agent-stack-k8s (package limiter): a job     *)
(* handler that wraps the next handler and a Kubernetes informer event     *)
(* handler, both working on one buffered channel of tokens (tokenBucket).  *)
(*                                                                         *)
(* The channel is modelled by the number of tokens buffered in it (tokens  *)
(* = len(l.tokenBucket)) and by the set of Handle calls parked on a        *)
(* receive from it (pc[p] = "blocked").  Channel operations follow the Go  *)
(* runtime: a select entered with several ready cases picks any of them; a *)
(* select entered with none parks, and the first event (close of           *)
(* ctx.Done(), close of job.StaleCh, a send on tokenBucket) decides its    *)
(* case at the moment it happens; a send that finds a parked receiver      *)
(* hands the token to it without buffering; no order is assumed among      *)
(* parked receivers.                                                       *)
(***************************************************************************)
EXTENDS Integers, FiniteSets

\* Bounds of the model.
NumCallers == 2
MaxCap == 2
NumResources == 2

Callers == 1..NumCallers
\* The Handle calls of the run with one call more than the bucket has tokens.
Submitted == 1..(NumCallers + 1)
Resources == 1..NumResources
\* Arguments tried for New's maxInFlight: the invalid ones and 1..MaxCap.
CapArgs == (0 - 1)..MaxCap

VARIABLES
    limiter,      \* "none" before New, "built" after it, "panicked" if it panicked
    MaxInFlight,  \* l.MaxInFlight = cap(l.tokenBucket)
    tokens,       \* len(l.tokenBucket)
    pc,           \* position of each Handle call
    ctxDone,      \* ctxDone[p]: ctx.Done() of call p is closed before its select
    staleFired,   \* staleFired[p]: job.StaleCh of call p is closed before its select
    result,       \* what call p returned
    res,          \* each job resource: where it is in the cluster and in the feed
    synced,       \* the informer has delivered its whole initial list
    replayShort,  \* history: a replayed unfinished job found the bucket empty
    released,     \* history: which event of each job has returned a token
    reconReturned,\* history: some OnUpdate or OnDelete has returned a token
    last          \* history: the operation that made the last step

vars == <<limiter, MaxInFlight, tokens, pc, ctxDone, staleFired, result,
          res, synced, replayShort, released, reconReturned, last>>

feedVars == <<res, synced, replayShort, released>>

Max(a, b) == IF a > b THEN a ELSE b

\* The Handle calls parked in the select of Handle, on the receive from tokenBucket.
Parked(f) == {q \in Submitted : f[q] = "blocked"}

\* An event payload (obj any): isJob is whether obj.(*batchv1.Job) succeeds,
\* finished is the job's status when it does.
NonJob == [isJob |-> FALSE, finished |-> FALSE]
Job(fin) == [isJob |-> TRUE, finished |-> fin]
Objs == {NonJob, Job(FALSE), Job(TRUE)}

\* model.JobFinished: whether the job resource has reached a terminal status.
JobFinished(job) == job.finished

\* The errors Handle can return.
CtxCause == "context.Cause(ctx)"
ErrStaleJob == "model.ErrStaleJob"
ErrNext == "next handler error"
NoErr == "nil"

\* Before New: no limiter, tokensAvailableFunc reports 0, no call, no event.
InitLimiter ==
    /\ limiter = "none"
    /\ MaxInFlight = 0
    /\ tokens = 0
    /\ pc = [p \in Submitted |-> "idle"]
    /\ ctxDone = [p \in Submitted |-> FALSE]
    /\ staleFired = [p \in Submitted |-> FALSE]
    /\ result = [p \in Submitted |-> "none"]
    /\ synced = FALSE
    /\ replayShort = FALSE
    /\ released = [r \in Resources |-> "none"]
    /\ reconReturned = FALSE
    /\ last = <<"Init", 0>>

Init ==
    /\ InitLimiter
    /\ res = [r \in Resources |-> "absent"]

----------------------------------------------------------------------------
\* The token bucket.

\* The loop of New that fills the bucket: k sends on a channel holding len tokens.
RECURSIVE FillBucket(_, _)
FillBucket(k, len) == IF k <= 0 THEN len ELSE FillBucket(k - 1, len + 1)

\* No channel operation; f is pc after the caller's own move.
Skip(f) ==
    /\ tokens' = tokens
    /\ pc' = f

\* tryTakeToken without its default case guarding the empty bucket.
tryTakeTokenUnchecked(f) ==
    /\ tokens' = tokens - 1
    /\ pc' = f

\* select { case <-l.tokenBucket: default: }
tryTakeToken(f) ==
    /\ tokens' = IF tokens > 0 THEN tokens - 1 ELSE tokens
    /\ pc' = f

\* tryReturnToken without its default case guarding the full bucket.
tryReturnTokenOverfull(f) ==
    IF Parked(f) # {}
    THEN /\ \E q \in Parked(f) : pc' = [f EXCEPT ![q] = "acquired"]
         /\ tokens' = tokens
    ELSE /\ tokens' = tokens + 1
         /\ pc' = f

\* select { case l.tokenBucket <- struct{}{}: default: }
\* A parked receiver gets the token directly; otherwise it is buffered if
\* the buffer has room, and dropped if it is full.
tryReturnToken(f) ==
    IF Parked(f) # {}
    THEN /\ \E q \in Parked(f) : pc' = [f EXCEPT ![q] = "acquired"]
         /\ tokens' = tokens
    ELSE /\ tokens' = IF tokens < MaxInFlight THEN tokens + 1 ELSE tokens
         /\ pc' = f

----------------------------------------------------------------------------
\* New

\* New without its test of maxInFlight.
NewUnchecked(maxInFlight) ==
    /\ limiter = "none"
    /\ limiter' = "built"
    /\ MaxInFlight' = maxInFlight
    /\ tokens' = FillBucket(maxInFlight, 0)
    /\ UNCHANGED <<pc, ctxDone, staleFired, result>>

New(maxInFlight) ==
    /\ limiter = "none"
    /\ IF maxInFlight <= 0
       THEN /\ limiter' = "panicked"
            /\ UNCHANGED <<MaxInFlight, tokens>>
       ELSE /\ limiter' = "built"
            /\ MaxInFlight' = maxInFlight
            /\ tokens' = FillBucket(maxInFlight, 0)
    /\ UNCHANGED <<pc, ctxDone, staleFired, result>>

----------------------------------------------------------------------------
\* Handle: the select.  ctx.Done() and job.StaleCh are read by the select
\* alone: ctxDone[p] and staleFired[p] are followed until the select of call
\* p is decided and dropped then.

Decided(f, p) == [f EXCEPT ![p] = FALSE]

\* The select is entered with ctx.Done() closed and picks that case.
SelectCtxDone(p) ==
    /\ limiter = "built"
    /\ pc[p] = "idle"
    /\ ctxDone[p]
    /\ pc' = [pc EXCEPT ![p] = "ctxCase"]
    /\ tokens' = tokens

\* The select is entered with job.StaleCh closed and picks that case.
SelectStale(p) ==
    /\ limiter = "built"
    /\ pc[p] = "idle"
    /\ staleFired[p]
    /\ pc' = [pc EXCEPT ![p] = "staleCase"]
    /\ tokens' = tokens

\* The token case of the select, leaving the token in the bucket.
SelectTokenKept(p) ==
    /\ limiter = "built"
    /\ pc[p] = "idle"
    /\ tokens > 0
    /\ tokens' = tokens
    /\ pc' = [pc EXCEPT ![p] = "acquired"]

\* The select is entered with a token in the bucket and picks that case.
SelectToken(p) ==
    /\ limiter = "built"
    /\ pc[p] = "idle"
    /\ tokens > 0
    /\ tokens' = tokens - 1
    /\ pc' = [pc EXCEPT ![p] = "acquired"]

\* The select is entered with no case ready: the call parks.
SelectPark(p) ==
    /\ limiter = "built"
    /\ pc[p] = "idle"
    /\ ~ctxDone[p]
    /\ ~staleFired[p]
    /\ tokens = 0
    /\ pc' = [pc EXCEPT ![p] = "blocked"]
    /\ tokens' = tokens

\* Handle is called and enters its select.
EnterSelect(p) ==
    /\ \/ SelectCtxDone(p)
       \/ SelectStale(p)
       \/ SelectToken(p)
       \/ SelectPark(p)
    /\ ctxDone' = Decided(ctxDone, p)
    /\ staleFired' = Decided(staleFired, p)
    /\ UNCHANGED <<limiter, MaxInFlight, result>>

\* What the signals of a call leave alone.
SignalFrame == UNCHANGED <<limiter, MaxInFlight, tokens, result>>

\* The caller's context is cancelled: before the call enters its select, or
\* while it is parked in it, and then the select takes the ctx.Done() case.
CtxCancelled(p) ==
    \/ /\ pc[p] = "idle"
       /\ ~ctxDone[p]
       /\ ctxDone' = [ctxDone EXCEPT ![p] = TRUE]
       /\ pc' = pc
       /\ staleFired' = staleFired
       /\ SignalFrame
    \/ /\ pc[p] = "blocked"
       /\ pc' = [pc EXCEPT ![p] = "ctxCase"]
       /\ UNCHANGED <<ctxDone, staleFired>>
       /\ SignalFrame

\* The job's staleness signal fires: before the call enters its select, or
\* while it is parked in it, and then the select takes the job.StaleCh case.
StaleSignalled(p) ==
    \/ /\ pc[p] = "idle"
       /\ ~staleFired[p]
       /\ staleFired' = [staleFired EXCEPT ![p] = TRUE]
       /\ pc' = pc
       /\ ctxDone' = ctxDone
       /\ SignalFrame
    \/ /\ pc[p] = "blocked"
       /\ pc' = [pc EXCEPT ![p] = "staleCase"]
       /\ UNCHANGED <<ctxDone, staleFired>>
       /\ SignalFrame

\* The ctx.Done() case without its return: the call goes on to the next handler.
ReturnCauseFallsThrough(p) ==
    /\ pc[p] = "ctxCase"
    /\ pc' = [pc EXCEPT ![p] = "acquired"]
    /\ result' = result
    /\ tokens' = tokens

\* case <-ctx.Done(): return context.Cause(ctx)
ReturnCause(p) ==
    /\ pc[p] = "ctxCase"
    /\ pc' = [pc EXCEPT ![p] = "returned"]
    /\ result' = [result EXCEPT ![p] = CtxCause]
    /\ tokens' = tokens

\* The job.StaleCh case returning the context's cause.
ReturnStaleAsCause(p) ==
    /\ pc[p] = "staleCase"
    /\ pc' = [pc EXCEPT ![p] = "returned"]
    /\ result' = [result EXCEPT ![p] = CtxCause]
    /\ tokens' = tokens

\* The job.StaleCh case without its return: the call goes on to the next handler.
ReturnStaleFallsThrough(p) ==
    /\ pc[p] = "staleCase"
    /\ pc' = [pc EXCEPT ![p] = "acquired"]
    /\ result' = result
    /\ tokens' = tokens

\* case <-job.StaleCh: return model.ErrStaleJob
ReturnStale(p) ==
    /\ pc[p] = "staleCase"
    /\ pc' = [pc EXCEPT ![p] = "returned"]
    /\ result' = [result EXCEPT ![p] = ErrStaleJob]
    /\ tokens' = tokens

----------------------------------------------------------------------------
\* Handle: the next handler.

\* The error path without tryReturnToken.
NextFailsKeepingToken(p) ==
    /\ pc[p] = "acquired"
    /\ Skip([pc EXCEPT ![p] = "released"])
    /\ result' = result

\* l.handler.Handle(ctx, job) returns an error: the token is returned.
NextFails(p) ==
    /\ pc[p] = "acquired"
    /\ tryReturnToken([pc EXCEPT ![p] = "released"])
    /\ result' = result

\* return err, after the token was returned
ReturnErr(p) ==
    /\ pc[p] = "released"
    /\ pc' = [pc EXCEPT ![p] = "returned"]
    /\ result' = [result EXCEPT ![p] = ErrNext]
    /\ tokens' = tokens

\* The success path returning the token as the error path does.
NextSucceedsReleasing(p) ==
    /\ pc[p] = "acquired"
    /\ tryReturnToken([pc EXCEPT ![p] = "returned"])
    /\ result' = [result EXCEPT ![p] = NoErr]

\* l.handler.Handle(ctx, job) returns nil: return nil, the token is kept.
NextSucceeds(p) ==
    /\ pc[p] = "acquired"
    /\ pc' = [pc EXCEPT ![p] = "returned"]
    /\ result' = [result EXCEPT ![p] = NoErr]
    /\ tokens' = tokens

----------------------------------------------------------------------------
\* The informer's event handler.

\* OnAdd taking a token for a replayed job whether it is finished or not.
OnAddTakesForFinished(obj, inInitialList) ==
    IF obj.isJob /\ inInitialList THEN tryTakeToken(pc) ELSE Skip(pc)

\* OnAdd without its test of inInitialList.
OnAddAlwaysReplay(obj, inInitialList) ==
    IF obj.isJob /\ ~JobFinished(obj) THEN tryTakeToken(pc) ELSE Skip(pc)

\* OnAdd taking no token for the jobs of the initial list.
OnAddIgnoresReplay(obj, inInitialList) == Skip(pc)

OnAdd(obj, inInitialList) ==
    IF ~obj.isJob
    THEN Skip(pc)
    ELSE IF ~inInitialList
         THEN Skip(pc)
         ELSE IF ~JobFinished(obj) THEN tryTakeToken(pc) ELSE Skip(pc)

\* OnUpdate returning a token on any change of the finished state.
OnUpdateAnyChange(prev, curr) ==
    IF ~prev.isJob \/ ~curr.isJob
    THEN Skip(pc)
    ELSE IF JobFinished(prev) # JobFinished(curr)
         THEN tryReturnToken(pc)
         ELSE Skip(pc)

\* OnUpdate returning a token whenever the current state is finished.
OnUpdateAnyFinished(prev, curr) ==
    IF ~prev.isJob \/ ~curr.isJob
    THEN Skip(pc)
    ELSE IF JobFinished(curr) THEN tryReturnToken(pc) ELSE Skip(pc)

\* OnUpdate testing only its current payload for a job.
OnUpdateChecksCurrOnly(prev, curr) ==
    IF ~curr.isJob
    THEN Skip(pc)
    ELSE IF ~JobFinished(prev) /\ JobFinished(curr)
         THEN tryReturnToken(pc)
         ELSE Skip(pc)

OnUpdate(prev, curr) ==
    IF ~prev.isJob \/ ~curr.isJob
    THEN Skip(pc)
    ELSE IF ~JobFinished(prev) /\ JobFinished(curr)
         THEN tryReturnToken(pc)
         ELSE Skip(pc)

\* OnDelete returning a token for every job, finished or not.
OnDeleteAlways(obj) ==
    IF ~obj.isJob THEN Skip(pc) ELSE tryReturnToken(pc)

\* OnDelete returning no token for a job deleted unfinished.
OnDeleteIgnored(obj) == Skip(pc)

OnDelete(obj) ==
    IF ~obj.isJob
    THEN Skip(pc)
    ELSE IF ~JobFinished(obj) THEN tryReturnToken(pc) ELSE Skip(pc)

\* What a step of Handle after its select, and an event, leave alone.
LimiterFrame == UNCHANGED <<limiter, MaxInFlight, ctxDone, staleFired>>

\* Whether the step has put a token back: buffered it, or handed it to a parked call.
TokenReturned ==
    \/ tokens' > tokens
    \/ \E q \in Submitted : pc[q] = "blocked" /\ pc'[q] = "acquired"

----------------------------------------------------------------------------
\* The limiter under any callers and any events, delivered in any order.

Construct(n) ==
    /\ New(n)
    /\ last' = <<"New", 0>>
    /\ UNCHANGED <<feedVars, reconReturned>>

HandleEnter(p) ==
    /\ EnterSelect(p)
    /\ last' = <<"Handle", p>>
    /\ UNCHANGED <<feedVars, reconReturned>>

Cancel(p) ==
    /\ CtxCancelled(p)
    /\ last' = <<"Cancel", p>>
    /\ UNCHANGED <<feedVars, reconReturned>>

FireStale(p) ==
    /\ StaleSignalled(p)
    /\ last' = <<"FireStale", p>>
    /\ UNCHANGED <<feedVars, reconReturned>>

HandleGiveUp(p) ==
    /\ \/ ReturnCause(p)
       \/ ReturnStale(p)
    /\ LimiterFrame
    /\ last' = <<"Handle", p>>
    /\ UNCHANGED <<feedVars, reconReturned>>

HandleFail(p) ==
    /\ \/ NextFails(p)
       \/ ReturnErr(p)
    /\ LimiterFrame
    /\ last' = <<"Handle", p>>
    /\ UNCHANGED <<feedVars, reconReturned>>

HandleSucceed(p) ==
    /\ NextSucceeds(p)
    /\ LimiterFrame
    /\ last' = <<"Handle", p>>
    /\ UNCHANGED <<feedVars, reconReturned>>

AddEvent(obj, inInitialList) ==
    /\ limiter = "built"
    /\ OnAdd(obj, inInitialList)
    /\ LimiterFrame
    /\ result' = result
    /\ last' = <<IF inInitialList THEN "OnAddInitial" ELSE "OnAddLive", 0>>
    /\ UNCHANGED <<feedVars, reconReturned>>

\* What an update event reports: a payload that is not a job, a job that has
\* gone from unfinished to finished, any other update of a job.
UpdateKind(prev, curr) ==
    IF ~prev.isJob \/ ~curr.isJob
    THEN "OnUpdateOffType"
    ELSE IF ~prev.finished /\ curr.finished THEN "OnUpdateFinish" ELSE "OnUpdate"

\* What a delete event reports: a payload that is not a job, a job last
\* known unfinished, a job last known finished.
DeleteKind(obj) ==
    IF ~obj.isJob
    THEN "OnDeleteOffType"
    ELSE IF ~obj.finished THEN "OnDeleteUnfinished" ELSE "OnDeleteFinished"

UpdateEvent(prev, curr) ==
    /\ limiter = "built"
    /\ OnUpdate(prev, curr)
    /\ LimiterFrame
    /\ result' = result
    /\ reconReturned' = (reconReturned \/ TokenReturned)
    /\ last' = <<UpdateKind(prev, curr), 0>>
    /\ UNCHANGED feedVars

DeleteEvent(obj) ==
    /\ limiter = "built"
    /\ OnDelete(obj)
    /\ LimiterFrame
    /\ result' = result
    /\ reconReturned' = (reconReturned \/ TokenReturned)
    /\ last' = <<DeleteKind(obj), 0>>
    /\ UNCHANGED feedVars

Next ==
    \/ \E n \in CapArgs : Construct(n)
    \/ \E p \in Callers : HandleEnter(p)
    \/ \E p \in Callers : Cancel(p)
    \/ \E p \in Callers : FireStale(p)
    \/ \E p \in Callers : HandleGiveUp(p)
    \/ \E p \in Callers : HandleFail(p)
    \/ \E p \in Callers : HandleSucceed(p)
    \/ \E obj \in Objs, b \in BOOLEAN : AddEvent(obj, b)
    \/ \E prev \in Objs, curr \in Objs : UpdateEvent(prev, curr)
    \/ \E obj \in Objs : DeleteEvent(obj)

Spec == Init /\ [][Next]_vars

----------------------------------------------------------------------------
\* The limiter behind RegisterInformer: the informer replays the jobs that
\* exist when it starts (OnAdd, inInitialList), reports the sync, and then
\* delivers the events of each job in the order they happen to it; Handle
\* is called once RegisterInformer has returned.  The jobs are those the
\* informer lists and those the next handler creates, one per call that
\* succeeds.  res[r] is where job r is in the cluster and in the feed:
\*   absent                        not created
\*   listedRunning, listedFinished in the initial list, not yet replayed
\*   created                       created unfinished, add event pending
\*   running                       unfinished, and delivered as such
\*   finishing                     finished, update event pending
\*   finished                      finished, and delivered as such
\*   deletingRunning               deleted when unfinished, delete event pending
\*   deletingFinished              deleted when finished, delete event pending
\*   gone                          deleted, delete event delivered
\* A job has at most one event pending: its next change in the cluster
\* waits for the delivery.

InitFeed ==
    /\ InitLimiter
    /\ res \in [Resources -> {"absent", "listedRunning", "listedFinished"}]

\* The jobs of the cluster that are neither finished nor deleted.
RunningJobs == {r \in Resources : res[r] \in {"listedRunning", "created", "running"}}

\* What an event of the feed leaves alone.
FeedFrame == UNCHANGED <<limiter, MaxInFlight, ctxDone, staleFired, result, reconReturned, last>>

FeedConstruct(n) ==
    /\ New(n)
    /\ UNCHANGED <<feedVars, reconReturned, last>>

\* The informer replays a job of its initial list.
Replay(r) ==
    /\ limiter = "built"
    /\ ~synced
    /\ res[r] \in {"listedRunning", "listedFinished"}
    /\ OnAdd(Job(res[r] = "listedFinished"), TRUE)
    /\ res' = [res EXCEPT ![r] = IF res[r] = "listedRunning" THEN "running" ELSE "finished"]
    /\ replayShort' = (replayShort \/ (res[r] = "listedRunning" /\ tokens = 0))
    /\ UNCHANGED <<synced, released>>
    /\ FeedFrame

\* cache.WaitForCacheSync returns true: the initial list has been delivered.
Sync ==
    /\ limiter = "built"
    /\ ~synced
    /\ \A r \in Resources : res[r] \notin {"listedRunning", "listedFinished"}
    /\ synced' = TRUE
    /\ UNCHANGED <<limiter, MaxInFlight, tokens, pc, ctxDone, staleFired, result,
                   res, replayShort, released, reconReturned, last>>

\* A running job reaches a terminal status in the cluster.
JobFinishes(r) ==
    /\ res[r] = "running"
    /\ res' = [res EXCEPT ![r] = "finishing"]
    /\ UNCHANGED <<limiter, MaxInFlight, tokens, pc, ctxDone, staleFired, result,
                   synced, replayShort, released, reconReturned, last>>

\* A job is deleted from the cluster.
JobDeleted(r) ==
    /\ res[r] \in {"running", "finished"}
    /\ res' = [res EXCEPT ![r] = IF res[r] = "running" THEN "deletingRunning" ELSE "deletingFinished"]
    /\ UNCHANGED <<limiter, MaxInFlight, tokens, pc, ctxDone, staleFired, result,
                   synced, replayShort, released, reconReturned, last>>

\* The live add event of a job the next handler created.
DeliverAdd(r) ==
    /\ synced
    /\ res[r] = "created"
    /\ OnAdd(Job(FALSE), FALSE)
    /\ res' = [res EXCEPT ![r] = "running"]
    /\ UNCHANGED <<synced, replayShort, released>>
    /\ FeedFrame

\* The update event of a job that has finished.
DeliverFinish(r) ==
    /\ synced
    /\ res[r] = "finishing"
    /\ OnUpdate(Job(FALSE), Job(TRUE))
    /\ res' = [res EXCEPT ![r] = "finished"]
    /\ UNCHANGED <<synced, replayShort, released>>
    /\ FeedFrame

\* An update event of a job whose finished state has not changed.
DeliverTouch(r) ==
    /\ synced
    /\ res[r] \in {"running", "finished"}
    /\ OnUpdate(Job(res[r] = "finished"), Job(res[r] = "finished"))
    /\ UNCHANGED <<res, synced, replayShort, released>>
    /\ FeedFrame

\* The delete event of a job, with its last known state.
DeliverDelete(r) ==
    /\ synced
    /\ res[r] \in {"deletingRunning", "deletingFinished"}
    /\ OnDelete(Job(res[r] = "deletingFinished"))
    /\ res' = [res EXCEPT ![r] = "gone"]
    /\ UNCHANGED <<synced, replayShort, released>>
    /\ FeedFrame

FeedEnter(p) ==
    /\ synced
    /\ EnterSelect(p)
    /\ UNCHANGED <<feedVars, reconReturned, last>>

FeedCancel(p) ==
    /\ synced
    /\ CtxCancelled(p)
    /\ UNCHANGED <<feedVars, reconReturned, last>>

FeedGiveUp(p) ==
    /\ ReturnCause(p)
    /\ LimiterFrame
    /\ UNCHANGED <<feedVars, reconReturned, last>>

FeedFail(p) ==
    /\ \/ NextFails(p)
       \/ ReturnErr(p)
    /\ LimiterFrame
    /\ UNCHANGED <<feedVars, reconReturned, last>>

\* The next handler creates job r and returns nil.
FeedSucceed(p, r) ==
    /\ NextSucceeds(p)
    /\ LimiterFrame
    /\ res[r] = "absent"
    /\ res' = [res EXCEPT ![r] = "created"]
    /\ UNCHANGED <<synced, replayShort, released, reconReturned, last>>

NextFeed ==
    \/ \E n \in CapArgs : FeedConstruct(n)
    \/ \E r \in Resources : Replay(r)
    \/ Sync
    \/ \E r \in Resources : JobFinishes(r)
    \/ \E r \in Resources : JobDeleted(r)
    \/ \E r \in Resources : DeliverAdd(r)
    \/ \E r \in Resources : DeliverFinish(r)
    \/ \E r \in Resources : DeliverTouch(r)
    \/ \E r \in Resources : DeliverDelete(r)
    \/ \E p \in Callers : FeedEnter(p)
    \/ \E p \in Callers : FeedCancel(p)
    \/ \E p \in Callers : FeedGiveUp(p)
    \/ \E p \in Callers : FeedFail(p)
    \/ \E p \in Callers, r \in Resources : FeedSucceed(p, r)

SpecFeed == InitFeed /\ [][NextFeed]_vars

----------------------------------------------------------------------------
\* The wait of Handle: calls whose context is cancelled, or whose job goes
\* stale, while they are parked in the select, among calls that go through
\* the next handler and events of any payload.  A call whose select has
\* taken the ctx.Done() or the job.StaleCh case runs on to its return;
\* nothing is asked of the next handler, of the signals or of the events.
\* The histories are not kept here.

\* What a step of the wait leaves alone.
WaitFrame == UNCHANGED <<feedVars, reconReturned, last>>

WaitEnter(p) ==
    /\ EnterSelect(p)
    /\ WaitFrame

WaitCancel(p) ==
    /\ pc[p] = "blocked"
    /\ CtxCancelled(p)
    /\ WaitFrame

WaitStale(p) ==
    /\ pc[p] = "blocked"
    /\ StaleSignalled(p)
    /\ WaitFrame

WaitGiveUp(p) ==
    /\ \/ ReturnCause(p)
       \/ ReturnStale(p)
    /\ LimiterFrame
    /\ WaitFrame

WaitSucceed(p) ==
    /\ NextSucceeds(p)
    /\ LimiterFrame
    /\ WaitFrame

WaitAdd(obj, inInitialList) ==
    /\ limiter = "built"
    /\ OnAdd(obj, inInitialList)
    /\ LimiterFrame
    /\ result' = result
    /\ WaitFrame

WaitUpdate(prev, curr) ==
    /\ limiter = "built"
    /\ OnUpdate(prev, curr)
    /\ LimiterFrame
    /\ result' = result
    /\ WaitFrame

WaitDelete(obj) ==
    /\ limiter = "built"
    /\ OnDelete(obj)
    /\ LimiterFrame
    /\ result' = result
    /\ WaitFrame

NextWait ==
    \/ \E n \in CapArgs : FeedConstruct(n)
    \/ \E p \in Callers : WaitEnter(p)
    \/ \E p \in Callers : WaitCancel(p)
    \/ \E p \in Callers : WaitStale(p)
    \/ \E p \in Callers : WaitGiveUp(p)
    \/ \E p \in Callers : FeedFail(p)
    \/ \E p \in Callers : WaitSucceed(p)
    \/ \E obj \in Objs, b \in BOOLEAN : WaitAdd(obj, b)
    \/ \E prev \in Objs, curr \in Objs : WaitUpdate(prev, curr)
    \/ \E obj \in Objs : WaitDelete(obj)

SpecWait ==
    /\ Init
    /\ [][NextWait]_vars
    /\ \A p \in Callers : WF_vars(WaitGiveUp(p))

----------------------------------------------------------------------------
\* The limiter end to end, without the informer: a bucket of NumCallers
\* tokens and one Handle call more than that, all submitted at once, none
\* cancelled and none stale.  Every submitted call gets to its select.

NextAdmit ==
    \/ Construct(NumCallers)
    \/ \E p \in Submitted : HandleEnter(p)
    \/ \E p \in Submitted : HandleFail(p)
    \/ \E p \in Submitted : HandleSucceed(p)

SpecAdmit ==
    /\ Init
    /\ [][NextAdmit]_vars
    /\ \A p \in Submitted : WF_vars(HandleEnter(p))

----------------------------------------------------------------------------
\* The same feed, with the history of each job: released[r] is the event of
\* job r that has returned a token ("none" when none has, "twice" when a
\* second one has).  The calls are not cancelled here.

\* The history of job r after an event of it: whether this event has
\* returned a token, and whether an earlier one had.
Released(r, event) ==
    IF TokenReturned
    THEN [released EXCEPT ![r] = IF released[r] = "none" THEN event ELSE "twice"]
    ELSE released

\* The live add event of a job the next handler created.
ObserveAdd(r) ==
    /\ synced
    /\ res[r] = "created"
    /\ OnAdd(Job(FALSE), FALSE)
    /\ res' = [res EXCEPT ![r] = "running"]
    /\ released' = Released(r, "add")
    /\ UNCHANGED <<synced, replayShort>>
    /\ FeedFrame

\* The update event of a job that has finished.
ObserveFinish(r) ==
    /\ synced
    /\ res[r] = "finishing"
    /\ OnUpdate(Job(FALSE), Job(TRUE))
    /\ res' = [res EXCEPT ![r] = "finished"]
    /\ released' = Released(r, "update")
    /\ UNCHANGED <<synced, replayShort>>
    /\ FeedFrame

\* An update event of a job whose finished state has not changed.
ObserveTouch(r) ==
    /\ synced
    /\ res[r] \in {"running", "finished"}
    /\ OnUpdate(Job(res[r] = "finished"), Job(res[r] = "finished"))
    /\ released' = Released(r, "update")
    /\ UNCHANGED <<res, synced, replayShort>>
    /\ FeedFrame

\* The delete event of a job, with its last known state.
ObserveDelete(r) ==
    /\ synced
    /\ res[r] \in {"deletingRunning", "deletingFinished"}
    /\ OnDelete(Job(res[r] = "deletingFinished"))
    /\ res' = [res EXCEPT ![r] = "gone"]
    /\ released' = Released(r, "delete")
    /\ UNCHANGED <<synced, replayShort>>
    /\ FeedFrame

NextLifetime ==
    \/ \E n \in CapArgs : FeedConstruct(n)
    \/ \E r \in Resources : Replay(r)
    \/ Sync
    \/ \E r \in Resources : JobFinishes(r)
    \/ \E r \in Resources : JobDeleted(r)
    \/ \E r \in Resources : ObserveAdd(r)
    \/ \E r \in Resources : ObserveFinish(r)
    \/ \E r \in Resources : ObserveTouch(r)
    \/ \E r \in Resources : ObserveDelete(r)
    \/ \E p \in Callers : FeedEnter(p)
    \/ \E p \in Callers : FeedFail(p)
    \/ \E p \in Callers, r \in Resources : FeedSucceed(p, r)

SpecLifetime == InitFeed /\ [][NextLifetime]_vars

----------------------------------------------------------------------------
\* Properties.

Built == limiter = "built"

\* The Handle calls that hold a token: past the select by its token case,
\* the next handler not yet returned.
Holding == {p \in Callers : pc[p] = "acquired"}

\* The Handle calls past the select by its token case that have not returned.
PastWait == {p \in Callers : pc[p] \in {"acquired", "released"}}

\* Call p gets a token in this step: from the bucket, or handed by a sender.
Acquires(p) == pc[p] # "acquired" /\ pc'[p] = "acquired"

\* C1: on a built limiter, whatever calls and events have interleaved, the
\* number of tokens in the bucket is between 0 and the capacity.
TokensWithinCapacity ==
    Built => (MaxInFlight >= 1 /\ tokens >= 0 /\ tokens <= MaxInFlight)

\* A release event on a full bucket after a call has kept its token.
TokensWithinCapacityWitness ==
    /\ Built
    /\ last = <<"OnDeleteUnfinished", 0>>
    /\ tokens = MaxInFlight
    /\ \E p \in Callers : pc[p] = "returned" /\ result[p] = NoErr

\* C2, as claimed: at every instant the calls that have acquired a token and
\* have not returned are at most the capacity.
PastWaitWithinCapacity ==
    Built => Cardinality(PastWait) <= MaxInFlight

\* C2, amended: as long as no reconciler event has returned a token, the
\* calls that hold a token (acquired, and the next handler has not returned)
\* are at most the capacity.
HoldingWithinCapacity ==
    (Built /\ ~reconReturned) => Cardinality(Holding) <= MaxInFlight

\* As many calls hold a token as the capacity allows, and another one waits.
HoldingWithinCapacityWitness ==
    /\ Built
    /\ ~reconReturned
    /\ Cardinality(Holding) = MaxInFlight
    /\ \E q \in Callers : pc[q] = "blocked"

\* C3, as claimed: a call gets past the select to the next handler only when
\* the jobs running in the cluster are fewer than the limit, whatever the
\* number of unfinished jobs replayed at startup.
ForwardOnlyBelowLimit ==
    [][\A p \in Callers :
          Acquires(p) => Cardinality(RunningJobs) < MaxInFlight]_vars

\* C3, amended: the same, when every unfinished job replayed at startup got
\* a token (at most capacity of them were replayed).
ForwardOnlyBelowLimitAfterFullReplay ==
    [][\A p \in Callers :
          (Acquires(p) /\ ~replayShort) => Cardinality(RunningJobs) < MaxInFlight]_vars

\* A call is past the select while a replayed job runs and one more running
\* job would reach the limit.
ForwardOnlyBelowLimitWitness ==
    /\ synced
    /\ ~replayShort
    /\ \E p \in Callers : pc[p] = "acquired"
    /\ \E r \in Resources : res[r] = "running"
    /\ Cardinality(RunningJobs) + 1 = MaxInFlight

\* No Handle call is in progress and no event of the feed is pending.
Quiescent ==
    /\ Built
    /\ synced
    /\ \A p \in Callers : pc[p] \in {"idle", "returned"}
    /\ \A r \in Resources : res[r] \in {"absent", "running", "finished", "gone"}

\* C4: when at most capacity unfinished jobs were replayed, in every state
\* with no call in progress and no event pending, the tokens taken out of
\* the bucket are as many as the jobs neither finished nor deleted.
ConsumedMatchesRunning ==
    (Quiescent /\ ~replayShort) =>
        MaxInFlight - tokens = Cardinality({r \in Resources : res[r] = "running"})

\* A quiescent state with a token consumed by a job a call has created,
\* after another job was deleted.
ConsumedMatchesRunningWitness ==
    /\ Quiescent
    /\ ~replayShort
    /\ tokens < MaxInFlight
    /\ \E r \in Resources : res[r] = "gone"
    /\ \E p \in Callers : result[p] = NoErr

\* Once returned, a call stays returned, with its result.
StaysReturned(p) ==
    pc[p] = "returned" => (pc'[p] = "returned" /\ result'[p] = result[p])

\* C5: a call parked in the select with no token in the bucket whose context
\* is cancelled takes the ctx.Done() case; from there it only returns the
\* context's cause, without a step into the next handler and without a
\* change of the bucket by the call, also when a token has arrived since.
CancelledWhileWaiting ==
    [][\A p \in Callers :
          /\ (pc[p] = "blocked" /\ Cancel(p)) =>
                 (tokens = 0 /\ pc'[p] = "ctxCase" /\ tokens' = tokens)
          /\ pc[p] = "ctxCase" =>
                 \/ pc'[p] = "ctxCase"
                 \/ /\ pc'[p] = "returned"
                    /\ result'[p] = CtxCause
                    /\ tokens' = tokens
                    /\ ~TokenReturned
          /\ StaysReturned(p)]_vars

\* The context of a parked call has just been cancelled, the bucket empty.
CancelledWhileWaitingWitness ==
    \E p \in Callers :
        /\ last = <<"Cancel", p>>
        /\ pc[p] = "ctxCase"
        /\ tokens = 0

\* C6: a call parked in the select with no token in the bucket whose job
\* goes stale takes the job.StaleCh case; from there it only returns
\* ErrStaleJob, which is neither the context's cause nor the next handler's
\* error nor nil, without a step into the next handler and without a change
\* of the bucket by the call.
StaleWhileWaiting ==
    [][\A p \in Callers :
          /\ (pc[p] = "blocked" /\ FireStale(p)) =>
                 (tokens = 0 /\ pc'[p] = "staleCase" /\ tokens' = tokens)
          /\ pc[p] = "staleCase" =>
                 \/ pc'[p] = "staleCase"
                 \/ /\ pc'[p] = "returned"
                    /\ result'[p] = ErrStaleJob
                    /\ result'[p] \notin {CtxCause, ErrNext, NoErr}
                    /\ tokens' = tokens
                    /\ ~TokenReturned
          /\ StaysReturned(p)]_vars

\* The job of a parked call has just gone stale, the bucket empty.
StaleWhileWaitingWitness ==
    \E p \in Callers :
        /\ last = <<"FireStale", p>>
        /\ pc[p] = "staleCase"
        /\ tokens = 0

\* C7: when the next handler fails, the call makes one attempt to return
\* its token: a parked call gets it, or the bucket gains one token unless it
\* is full; and the token is never dropped as long as no reconciler event
\* has returned one.  The call then returns the handler's error, with no
\* second release.
FailureReturnsToken ==
    [][\A p \in Callers :
          /\ (pc[p] = "acquired" /\ pc'[p] = "released") =>
                 /\ IF Parked(pc) # {}
                    THEN /\ tokens' = tokens
                         /\ Cardinality({q \in Parked(pc) : pc'[q] = "acquired"}) = 1
                    ELSE /\ tokens' = IF tokens < MaxInFlight THEN tokens + 1 ELSE tokens
                         /\ \A q \in Callers \ {p} : pc'[q] = pc[q]
                 /\ ~reconReturned => TokenReturned
          /\ pc[p] = "released" =>
                 \/ pc'[p] = "released"
                 \/ /\ pc'[p] = "returned"
                    /\ result'[p] = ErrNext
                    /\ tokens' = tokens
                    /\ ~TokenReturned
          /\ StaysReturned(p)]_vars

\* A call has returned the next handler's error and the bucket is full again.
FailureReturnsTokenWitness ==
    \E p \in Callers :
        /\ last = <<"Handle", p>>
        /\ pc[p] = "returned"
        /\ result[p] = ErrNext
        /\ ~reconReturned
        /\ tokens = MaxInFlight

\* C8: when the next handler succeeds, the call returns nil and the bucket
\* and the parked calls are as before.  Once New has filled the bucket, a
\* token is put back only by the error path of a call, by an update from
\* unfinished to finished, or by the delete of an unfinished job.
SuccessKeepsToken ==
    [][/\ \A p \in Callers :
             (pc[p] = "acquired" /\ pc'[p] = "returned") =>
                 (result'[p] = NoErr /\ tokens' = tokens /\ ~TokenReturned)
       /\ (Built /\ TokenReturned) =>
             \/ \E p \in Callers : pc[p] = "acquired" /\ pc'[p] = "released"
             \/ UpdateEvent(Job(FALSE), Job(TRUE))
             \/ DeleteEvent(Job(FALSE))]_vars

\* A call has returned nil, its token is out of the bucket, another call waits.
SuccessKeepsTokenWitness ==
    \E p \in Callers :
        /\ last = <<"Handle", p>>
        /\ pc[p] = "returned"
        /\ result[p] = NoErr
        /\ ~reconReturned
        /\ tokens = 0
        /\ \E q \in Callers : pc[q] = "blocked"

\* The unfinished jobs the informer has replayed.
ReplayedUnfinished == {r \in Resources : res[r] \in {"running", "finishing", "deletingRunning"}}

\* C9: while the informer replays its initial list on a fresh limiter, the
\* tokens in the bucket are the capacity less the unfinished jobs replayed
\* so far, and 0 when there are more of them than the capacity; a finished
\* job replayed takes none.
ReplayAccounting ==
    (Built /\ ~synced) =>
        tokens = Max(MaxInFlight - Cardinality(ReplayedUnfinished), 0)

\* The whole initial list is replayed: unfinished jobs and a finished one.
ReplayAccountingWitness ==
    /\ Built
    /\ ~synced
    /\ \A r \in Resources : res[r] \notin {"absent", "listedRunning", "listedFinished"}
    /\ \E r \in Resources : res[r] = "finished"
    /\ Cardinality(ReplayedUnfinished) >= 1

\* C10: an add event outside the initial list, of a finished job, an
\* unfinished job or no job at all, leaves the bucket and the parked calls
\* as they are.
LiveAddChangesNothing ==
    [][\A obj \in Objs :
          AddEvent(obj, FALSE) => (tokens' = tokens /\ pc' = pc)]_vars

\* A live add event has been handled while the bucket had a token to take.
LiveAddChangesNothingWitness ==
    /\ last = <<"OnAddLive", 0>>
    /\ tokens > 0
    /\ tokens < MaxInFlight

\* C11: an update event puts a token back exactly when both payloads are
\* jobs, the previous one unfinished and the current one finished: a parked
\* call gets the token, or the bucket gains exactly one token unless it is
\* full.  Every other update (finished to finished, unfinished to
\* unfinished, finished to unfinished) leaves the bucket and the parked
\* calls as they are.
UpdateReleasesOnFinish ==
    [][\A prev \in {Job(FALSE), Job(TRUE)}, curr \in {Job(FALSE), Job(TRUE)} :
          UpdateEvent(prev, curr) =>
              IF ~prev.finished /\ curr.finished
              THEN IF Parked(pc) # {}
                   THEN /\ tokens' = tokens
                        /\ Cardinality({q \in Parked(pc) : pc'[q] = "acquired"}) = 1
                        /\ \A q \in Callers \ Parked(pc) : pc'[q] = pc[q]
                   ELSE /\ tokens' = IF tokens < MaxInFlight THEN tokens + 1 ELSE tokens
                        /\ pc' = pc
              ELSE tokens' = tokens /\ pc' = pc]_vars

\* An update from unfinished to finished has just put a token into a bucket
\* that a call had emptied.
UpdateReleasesOnFinishWitness ==
    /\ last = <<"OnUpdateFinish", 0>>
    /\ reconReturned
    /\ tokens = 1
    /\ tokens < MaxInFlight
    /\ \E p \in Callers : pc[p] = "returned" /\ result[p] = NoErr

\* C12: a delete event whose last known state is an unfinished job puts one
\* token back: a parked call gets it, or the bucket gains exactly one token
\* unless it is full; no finished update of the job is needed for that.  A
\* delete event whose last known state is a finished job leaves the bucket
\* and the parked calls as they are.
DeleteReleasesUnfinished ==
    [][\A obj \in {Job(FALSE), Job(TRUE)} :
          DeleteEvent(obj) =>
              IF ~obj.finished
              THEN IF Parked(pc) # {}
                   THEN /\ tokens' = tokens
                        /\ Cardinality({q \in Parked(pc) : pc'[q] = "acquired"}) = 1
                        /\ \A q \in Callers \ Parked(pc) : pc'[q] = pc[q]
                   ELSE /\ tokens' = IF tokens < MaxInFlight THEN tokens + 1 ELSE tokens
                        /\ pc' = pc
              ELSE tokens' = tokens /\ pc' = pc]_vars

\* The delete of an unfinished job has just put a token into a bucket that
\* a call had emptied.
DeleteReleasesUnfinishedWitness ==
    /\ last = <<"OnDeleteUnfinished", 0>>
    /\ reconReturned
    /\ tokens = 1
    /\ tokens < MaxInFlight
    /\ \E p \in Callers : pc[p] = "returned" /\ result[p] = NoErr

\* C13: when the events of each job are delivered in order (add, updates,
\* delete), at most one event of a job returns a token: a job whose update
\* from unfinished to finished has returned one gets none from its later
\* updates nor from its delete, and only an update from unfinished to
\* finished or the delete of an unfinished job returns one at all.
OneReleasePerJob ==
    \A r \in Resources :
        /\ released[r] \in {"none", "update", "delete"}
        /\ released[r] = "update" => res[r] \in {"finished", "deletingFinished", "gone"}
        /\ released[r] = "delete" => res[r] = "gone"

\* A job a call created has returned its token on its finished update, and
\* its later delete event has been delivered.
OneReleasePerJobWitness ==
    \E r \in Resources :
        /\ res[r] = "gone"
        /\ released[r] = "update"
        /\ tokens = MaxInFlight
        /\ \E p \in Callers : result[p] = NoErr

\* A reconciler event that returns a token.
ReconcilerRelease ==
    \/ UpdateEvent(Job(FALSE), Job(TRUE))
    \/ DeleteEvent(Job(FALSE))

\* Call p has a token out of the bucket: it is in the next handler, or it
\* has returned nil.
KeepsToken(p) == pc[p] = "acquired" \/ (pc[p] = "returned" /\ result[p] = NoErr)

\* C14: with capacity 1, while one call holds the token (acquired, or
\* returned nil and no reconciler event has returned a token), a second call
\* that enters the select does not get past it; a parked call gets past it
\* only in the step in which a holder's next handler fails and returns the
\* token, or in a reconciler release event.  When the holder's next handler
\* succeeds the parked call stays parked, and when it fails a parked call
\* gets the token in that very step.
BlockedUntilRelease ==
    [][MaxInFlight = 1 =>
          \A p \in Callers : \A q \in Callers \ {p} :
              /\ (KeepsToken(p) /\ ~reconReturned /\ pc[q] = "idle" /\ HandleEnter(q)) =>
                     (tokens = 0 /\ pc'[q] # "acquired")
              /\ (pc[q] = "blocked" /\ pc'[q] = "acquired") =>
                     \/ \E h \in Callers \ {q} : pc[h] = "acquired" /\ pc'[h] = "released"
                     \/ ReconcilerRelease
              /\ (pc[p] = "acquired" /\ pc'[p] = "returned" /\ pc[q] = "blocked") =>
                     (result'[p] = NoErr /\ pc'[q] = "blocked" /\ tokens' = 0)
              /\ (pc[p] = "acquired" /\ pc'[p] = "released" /\ Parked(pc) = {q}) =>
                     pc'[q] = "acquired"]_vars

\* Capacity 1: the first call has returned nil, and the second, parked since,
\* has just got the token from the update that reports a job finished.
BlockedUntilReleaseWitness ==
    /\ MaxInFlight = 1
    /\ last = <<"OnUpdateFinish", 0>>
    /\ \E p \in Callers : \E q \in Callers \ {p} :
          /\ pc[p] = "returned"
          /\ result[p] = NoErr
          /\ pc[q] = "acquired"
          /\ tokens = 0

\* The submitted calls that are in the next handler.
InNextHandler == {p \in Submitted : pc[p] = "acquired"}

\* The next handler of some call has failed.
SomeCallFailed == \E p \in Submitted : pc[p] = "released" \/ result[p] = ErrNext

\* C15: with a bucket of NumCallers tokens and NumCallers + 1 calls
\* submitted at once, no cancellation, no staleness and no reconciler event:
\* the calls in the next handler are never more than the capacity, and once
\* the next handler of a call has failed, every submitted call gets past the
\* select, the waiting one with the token the failure has returned.
FailureAdmitsWaiting ==
    /\ [](Built => Cardinality(InNextHandler) <= MaxInFlight)
    /\ SomeCallFailed ~> (\A q \in Submitted : pc[q] \notin {"idle", "blocked"})

\* The next handler of a call has just failed while the other calls, as many
\* as the capacity, are in the next handler: the one that waited has the
\* token of the failed call.
FailureAdmitsWaitingWitness ==
    \E p \in Submitted :
        /\ last = <<"Handle", p>>
        /\ pc[p] = "released"
        /\ tokens = 0
        /\ InNextHandler = Submitted \ {p}
        /\ Cardinality(InNextHandler) = MaxInFlight

\* C16: on a built limiter the reconciler's take and release can always be
\* made, whatever the bucket holds and whatever the calls are doing; a take
\* from an empty bucket and a release into a full bucket, by the reconciler
\* or by the error path of a call, leave the bucket and the other calls as
\* they are and the limiter standing, so a release repeated at capacity
\* changes nothing.
NonBlockingAtBounds ==
    /\ [](Built => /\ ENABLED AddEvent(Job(FALSE), TRUE)
                   /\ ENABLED UpdateEvent(Job(FALSE), Job(TRUE))
                   /\ ENABLED DeleteEvent(Job(FALSE)))
    /\ [][
          /\ (tokens = 0 /\ AddEvent(Job(FALSE), TRUE)) =>
                (tokens' = 0 /\ pc' = pc /\ limiter' = "built")
          /\ (tokens = MaxInFlight /\ ReconcilerRelease) =>
                (tokens' = MaxInFlight /\ pc' = pc /\ limiter' = "built")
          /\ \A p \in Callers :
                (tokens = MaxInFlight /\ pc[p] = "acquired" /\ pc'[p] = "released") =>
                    /\ tokens' = MaxInFlight
                    /\ \A q \in Callers \ {p} : pc'[q] = pc[q]
                    /\ limiter' = "built"
       ]_vars

\* The delete of an unfinished job has just found the bucket full: no event
\* has returned a token yet, this one included.
NonBlockingAtBoundsWitness ==
    /\ last = <<"OnDeleteUnfinished", 0>>
    /\ ~reconReturned
    /\ tokens = MaxInFlight

Ignored ==
    /\ tokens' = tokens
    /\ pc' = pc
    /\ result' = result
    /\ limiter' = limiter
    /\ MaxInFlight' = MaxInFlight
    /\ reconReturned' = reconReturned

\* C18: an add or delete event whose payload is not a job, and an update
\* event one of whose payloads is not a job, whatever the other is, is
\* handled without an error and leaves the bucket, the calls and the limiter
\* as they are, in the initial list or after it.  The steps of such update
\* and delete events are those that leave their kind in last.
OffTypeIgnored ==
    [][/\ \A b \in BOOLEAN : AddEvent(NonJob, b) => Ignored
       /\ last' = <<UpdateKind(NonJob, NonJob), 0>> => Ignored
       /\ last' = <<DeleteKind(NonJob), 0>> => Ignored]_vars

\* An update with a payload that is not a job has just been handled, while
\* the bucket had a token to take and room for one more.
OffTypeIgnoredWitness ==
    /\ last = <<"OnUpdateOffType", 0>>
    /\ tokens > 0
    /\ tokens < MaxInFlight

\* C19, as claimed: a call that enters its select with its context already
\* cancelled, or its job already stale, takes that case whether the bucket
\* holds a token or not: it consumes no token and does not go on to the next
\* handler.
SignalBeforeWaitWins ==
    [][\A p \in Callers :
          (pc[p] = "idle" /\ (ctxDone[p] \/ staleFired[p]) /\ HandleEnter(p)) =>
              /\ tokens' = tokens
              /\ pc'[p] \in {"ctxCase", "staleCase"}
              /\ pc'[p] = "ctxCase" => ctxDone[p]
              /\ pc'[p] = "staleCase" => staleFired[p]]_vars

\* C20: a call parked in the select leaves the wait in the very step in
\* which its context is cancelled or its job goes stale, bucket empty or
\* not, and from there it returns, whether a token ever arrives or not and
\* whatever the other calls do.  On a built limiter OnAdd, OnUpdate and
\* OnDelete can be handled in every state, with calls parked or in the next
\* handler, and each is a single step.
WaitEndsOnSignal ==
    /\ \A p \in Callers : (pc[p] \in {"ctxCase", "staleCase"}) ~> (pc[p] = "returned")
    /\ [][\A p \in Callers :
             /\ WaitCancel(p) => (pc'[p] = "ctxCase" /\ tokens' = tokens)
             /\ WaitStale(p) => (pc'[p] = "staleCase" /\ tokens' = tokens)]_vars
    /\ [](Built => \A obj \in Objs :
                      /\ ENABLED WaitAdd(obj, TRUE)
                      /\ ENABLED WaitAdd(obj, FALSE)
                      /\ ENABLED WaitDelete(obj)
                      /\ \A curr \in Objs : ENABLED WaitUpdate(obj, curr))

\* A call that was parked has returned ErrStaleJob; the bucket is still
\* empty and another call is still parked.
WaitEndsOnSignalWitness ==
    \E p \in Callers :
        /\ pc[p] = "returned"
        /\ result[p] = ErrStaleJob
        /\ tokens = 0
        /\ \E q \in Callers : pc[q] = "blocked"

====
